---- MODULE Spec2Model ----
(***************************************************************************)
(* Privacy and memory subsystem of ai_career_buddy/app.py: the PII         *)
(* redactor, the storage sanitizer, the mood/interest classifier, the      *)
(* bounded memory store (recent_context.json + conversation_summary.json   *)
(* under memory_lock), the model-output cleaner and the daily log.         *)
(*                                                                         *)
(* Text is a TLA+ string of ASCII characters.  The regular expressions of  *)
(* the source are values (Lit, Cls, Cat, Alt, Rep, ...) run by Match, a    *)
(* backtracking matcher that explores alternatives in the order Python's   *)
(* re module does (leftmost match, ordered alternation, greedy or lazy     *)
(* repetition).                                                            *)
(***************************************************************************)
EXTENDS Integers, Sequences, FiniteSets, TLC

(***************************************************************************)
(* Characters                                                              *)
(***************************************************************************)
CharsOf(str) == {SubSeq(str, k, k) : k \in 1..Len(str)}
UpperStr == "ABCDEFGHIJKLMNOPQRSTUVWXYZ"
LowerStr == "abcdefghijklmnopqrstuvwxyz"
UpperSet == CharsOf(UpperStr)
LowerSet == CharsOf(LowerStr)
DigitSet == CharsOf("0123456789")
\* \s
SpaceSet == {" ", "\t", "\n", "\r", "\f"}
\* \w
WordSet == UpperSet \cup LowerSet \cup DigitSet \cup {"_"}
LowerOf == [c \in UpperSet |-> LET k == CHOOSE j \in 1..Len(UpperStr) : SubSeq(UpperStr, j, j) = c
                               IN SubSeq(LowerStr, k, k)]

Min(S) == CHOOSE x \in S : \A y \in S : x <= y
Max(S) == CHOOSE x \in S : \A y \in S : x >= y

\* str.lower(), by halves (the recursion is as deep as log2 of the length)
RECURSIVE lower(_)
lower(s) ==
  IF Len(s) = 0 THEN ""
  ELSE IF Len(s) = 1 THEN (IF s \in UpperSet THEN LowerOf[s] ELSE s)
  ELSE LET h == Len(s) \div 2
       IN lower(SubSeq(s, 1, h)) \o lower(SubSeq(s, h + 1, Len(s)))

\* str.lstrip(), str.rstrip(), str.strip()
NonSpaceAt(s) == {i \in 1..Len(s) : SubSeq(s, i, i) \notin SpaceSet}
lstrip(s) == IF NonSpaceAt(s) = {} THEN "" ELSE SubSeq(s, Min(NonSpaceAt(s)), Len(s))
rstrip(s) == IF NonSpaceAt(s) = {} THEN "" ELSE SubSeq(s, 1, Max(NonSpaceAt(s)))
strip(s) == rstrip(lstrip(s))

\* needle in haystack
Contains(hay, needle) ==
  \E i \in 1..(Len(hay) - Len(needle) + 1) : SubSeq(hay, i, i + Len(needle) - 1) = needle

\* s.startswith(prefix)
StartsWith(s, prefix) == Len(prefix) <= Len(s) /\ SubSeq(s, 1, Len(prefix)) = prefix

(***************************************************************************)
(* Regular expressions.  hi < 0 is an unbounded repetition.  A pattern     *)
(* compiled with re.IGNORECASE (or (?i)) is written in lower case and run  *)
(* against the lower-cased subject; its replacement is spliced into the    *)
(* original subject.                                                       *)
(***************************************************************************)
Lit(str) == [t |-> "lit", s |-> str]
Cls(set) == [t |-> "cls", cs |-> set]
NCls(set) == [t |-> "ncls", cs |-> set]
Cat(items) == [t |-> "cat", rs |-> items]
Alt(items) == [t |-> "alt", rs |-> items]
Rep(r, lo, hi) == [t |-> "rep", r |-> r, lo |-> lo, hi |-> hi]
Lazy(r, lo, hi) == [t |-> "lazy", r |-> r, lo |-> lo, hi |-> hi]
WB == [t |-> "wb"]
Opt(r) == Rep(r, 0, 1)
Plus(r) == Rep(r, 1, -1)
Star(r) == Rep(r, 0, -1)
\* (?:a|b|c) over literal words
Words(strs) == Alt([k \in 1..Len(strs) |-> Lit(strs[k])])

IsWordAt(m, i) == i >= 1 /\ i <= Len(m) /\ SubSeq(m, i, i) \in WordSet
Dec(n) == IF n < 0 THEN n ELSE n - 1
IsCharClass(r) == r.t \in {"cls", "ncls"}
CharOk(r, c) == IF r.t = "cls" THEN c \in r.cs ELSE c \notin r.cs
\* how many characters from position i on are in the class r
RunLen(r, m, i) ==
  LET stops == {j \in i..Len(m) : ~CharOk(r, SubSeq(m, j, j))}
  IN IF stops = {} THEN Len(m) + 1 - i ELSE Min(stops) - i
\* seq without the later repeats of an element
Dedup(seq) ==
  LET keep == {k \in 1..Len(seq) : \A j \in 1..(k - 1) : seq[j] # seq[k]}
  IN [n \in 1..Cardinality(keep) |-> seq[CHOOSE k \in keep : Cardinality({j \in keep : j <= k}) = n]]
\* <<from, from - 1, ..., to>> and <<from, from + 1, ..., to>>
Descending(from, to) == [n \in 1..(from - to + 1) |-> from - n + 1]
Ascending(from, to) == [n \in 1..(to - from + 1) |-> from + n - 1]

\* Ends(r, m, i): the positions after the matches of r against m from position i, in
\* the order in which Python's backtracking matcher tries them (each position once):
\* the first is the end of the match re.sub takes.  EndsEach continues from each
\* of the positions ps in turn, EndsCat runs the items of a concatenation from the
\* k-th on, EndsAlt the alternatives lo..hi in order.
RECURSIVE Ends(_, _, _)
RECURSIVE EndsEach(_, _, _)
RECURSIVE EndsCat(_, _, _, _)
RECURSIVE EndsAlt(_, _, _, _, _)
Ends(r, m, i) ==
  CASE r.t = "lit" ->
         IF i + Len(r.s) - 1 <= Len(m) /\ SubSeq(m, i, i + Len(r.s) - 1) = r.s
         THEN <<i + Len(r.s)>> ELSE <<>>
    [] r.t \in {"cls", "ncls"} ->
         IF i <= Len(m) /\ CharOk(r, SubSeq(m, i, i)) THEN <<i + 1>> ELSE <<>>
    [] r.t = "wb" -> IF IsWordAt(m, i - 1) # IsWordAt(m, i) THEN <<i>> ELSE <<>>
    [] r.t = "cat" -> EndsCat(r.rs, 1, m, <<i>>)
    [] r.t = "alt" -> Dedup(EndsAlt(r.rs, 1, Len(r.rs), m, i))
    [] r.t \in {"rep", "lazy"} /\ IsCharClass(r.r) ->
         LET run == RunLen(r.r, m, i)
             most == IF r.hi >= 0 /\ r.hi < run THEN r.hi ELSE run
             least == IF r.lo > 0 THEN r.lo ELSE 0
         IN IF r.t = "rep" THEN Descending(i + most, i + least) ELSE Ascending(i + least, i + most)
    [] r.t \in {"rep", "lazy"} /\ ~IsCharClass(r.r) ->
         LET once == SelectSeq(Ends(r.r, m, i), LAMBDA e : e > i)
             more == IF r.hi # 0
                     THEN EndsEach([r EXCEPT !.lo = r.lo - 1, !.hi = Dec(r.hi)], m, once)
                     ELSE <<>>
             stop == IF r.lo <= 0 THEN <<i>> ELSE <<>>
         IN Dedup(IF r.t = "rep" THEN more \o stop ELSE stop \o more)
EndsEach(r, m, ps) ==
  IF Len(ps) = 0 THEN <<>>
  ELSE IF Len(ps) = 1 THEN Ends(r, m, ps[1])
  ELSE LET h == Len(ps) \div 2
       IN EndsEach(r, m, SubSeq(ps, 1, h)) \o EndsEach(r, m, SubSeq(ps, h + 1, Len(ps)))
EndsCat(rs, k, m, ps) ==
  IF k > Len(rs) \/ ps = <<>> THEN ps
  ELSE EndsCat(rs, k + 1, m, Dedup(EndsEach(rs[k], m, ps)))
EndsAlt(rs, lo, hi, m, i) ==
  IF lo > hi THEN <<>>
  ELSE IF lo = hi THEN Ends(rs[lo], m, i)
  ELSE LET h == (lo + hi) \div 2
       IN EndsAlt(rs, lo, h, m, i) \o EndsAlt(rs, h + 1, hi, m, i)

\* the position after the match of re that starts at position i; 0 when there is none
FirstOf(es) == IF es = <<>> THEN 0 ELSE es[1]
Match(re, m, i) == FirstOf(Ends(re, m, i))

Folded(s, fold) == IF fold THEN lower(s) ELSE s

\* the start of the leftmost match of re in m at or after position i; 0 when none
MinOrZero(S) == IF S = {} THEN 0 ELSE Min(S)
NextMatch(re, m, i) == MinOrZero({j \in i..Len(m) : Match(re, m, j) > j})

\* re.sub(re, repl, s): every leftmost non-overlapping match replaced by repl;
\* SubAt continues from position i with the next match at j (0: none)
RECURSIVE SubFrom(_, _, _, _, _)
RECURSIVE SubAt(_, _, _, _, _, _)
SubFrom(re, repl, s, m, i) == SubAt(re, repl, s, m, i, NextMatch(re, m, i))
SubAt(re, repl, s, m, i, j) ==
  IF j = 0 THEN SubSeq(s, i, Len(s))
  ELSE SubSeq(s, i, j - 1) \o repl \o SubFrom(re, repl, s, m, Match(re, m, j))
\* a substitution that stops after the first match (count=1)
SubOnceAt(re, repl, s, m, j) ==
  IF j = 0 THEN s ELSE SubSeq(s, 1, j - 1) \o repl \o SubSeq(s, Match(re, m, j), Len(s))
SubOnceIn(re, repl, s, m) == SubOnceAt(re, repl, s, m, NextMatch(re, m, 1))
SubOnce(re, repl, s, fold) == SubOnceIn(re, repl, s, Folded(s, fold))
Sub(re, repl, s, fold) == SubFrom(re, repl, s, Folded(s, fold), 1)

\* re.sub(re, lambda m: re.sub(inner, repl, m.group(0)), s)
RECURSIVE SubInnerFrom(_, _, _, _, _)
RECURSIVE SubInnerAt(_, _, _, _, _, _)
RECURSIVE SubInnerIn(_, _, _, _, _, _)
SubInnerFrom(re, inner, repl, s, i) == SubInnerAt(re, inner, repl, s, i, NextMatch(re, s, i))
SubInnerAt(re, inner, repl, s, i, j) ==
  IF j = 0 THEN SubSeq(s, i, Len(s))
  ELSE SubSeq(s, i, j - 1) \o SubInnerIn(re, inner, repl, s, j, Match(re, s, j))
SubInnerIn(re, inner, repl, s, j, e) ==
  Sub(inner, repl, SubSeq(s, j, e - 1), FALSE) \o SubInnerFrom(re, inner, repl, s, e)

\* len(re.findall(re, s))
RECURSIVE CountFrom(_, _, _)
RECURSIVE CountAt(_, _, _)
CountFrom(re, m, i) == CountAt(re, m, NextMatch(re, m, i))
CountAt(re, m, j) == IF j = 0 THEN 0 ELSE 1 + CountFrom(re, m, Match(re, m, j))
FindCount(re, s, fold) == CountFrom(re, Folded(s, fold), 1)

(***************************************************************************)
(* Program constants (app.py, lines 22-75)                                 *)
(***************************************************************************)
MAX_MEMORY_ENTRIES == 10
MAX_MEMORY_TEXT_LENGTH == 280
MAX_INTEREST_TAGS == 6

POSITIVE_KEYWORDS ==
  <<"awesome", "brilliant", "cool", "enjoy", "excited", "fun", "glad", "good", "great",
    "happy", "love", "proud">>
NEGATIVE_KEYWORDS ==
  <<"angry", "bored", "confused", "disappointed", "frustrated", "nervous", "sad", "scared",
    "tired", "upset", "worried">>
\* in declaration order: <<tag, keywords>>
INTEREST_KEYWORDS ==
  << <<"science", <<"science", "experiment", "space", "rocket", "robot", "physics", "chemistry", "biology">> >>,
     <<"technology", <<"technology", "coding", "computer", "program", "app", "ai", "game", "robotics">> >>,
     <<"math", <<"math", "algebra", "geometry", "numbers", "equation", "formula">> >>,
     <<"art", <<"art", "drawing", "painting", "music", "dance", "creative", "story">> >>,
     <<"sports", <<"sport", "sports", "football", "cricket", "basketball", "athletics", "running">> >>,
     <<"nature", <<"nature", "environment", "planet", "trees", "forest", "wildlife">> >>,
     <<"animals", <<"animal", "animals", "pet", "pets", "zoo", "vet", "veterinarian">> >>,
     <<"helping", <<"doctor", "nurse", "heal", "care", "help people">> >> >>
Tags == {INTEREST_KEYWORDS[k][1] : k \in 1..Len(INTEREST_KEYWORDS)}

(***************************************************************************)
(* redact_pii (app.py, lines 174-250)                                      *)
(***************************************************************************)
D == Cls(DigitSet)
WS == Cls(SpaceSet)
WS1 == Plus(WS)
\* [\s.-]
Sep == Cls(SpaceSet \cup {".", "-"})
AlnumSet == UpperSet \cup LowerSet \cup DigitSet
\* [A-Z][a-z]+
CapWord == Cat(<<Cls(UpperSet), Plus(Cls(LowerSet))>>)
\* [A-Z][a-z]+ under re.IGNORECASE
AnyCaseWord == Cat(<<Cls(LowerSet), Plus(Cls(LowerSet))>>)

phone_patterns ==
  << Cat(<<WB, Opt(Cat(<<Lit("+91"), Opt(Sep)>>)), Cls(CharsOf("6789")), Rep(D, 9, 9), WB>>),
     Cat(<<WB, Opt(Cat(<<Lit("+91"), Opt(Sep)>>)), Lit("0"), Rep(D, 2, 4), Opt(Sep), Rep(D, 6, 8), WB>>),
     Cat(<<WB, Opt(Cat(<<Lit("+"), Rep(D, 1, 3), Opt(Sep)>>)), Opt(Lit("(")), Rep(D, 3, 3),
           Opt(Lit(")")), Opt(Sep), Rep(D, 3, 3), Opt(Sep), Rep(D, 4, 4), WB>>) >>

email_pattern ==
  Cat(<<WB, Plus(Cls(AlnumSet \cup CharsOf("._%+-"))), Lit("@"), Plus(Cls(AlnumSet \cup CharsOf(".-"))),
        Lit("."), Rep(Cls(UpperSet \cup LowerSet \cup {"|"}), 2, -1), WB>>)

address_patterns ==
  << Cat(<<WB, Rep(D, 6, 6), WB>>),
     Cat(<<WB, Words(<<"house", "flat", "apartment", "bldg", "building", "block", "street", "road",
                       "lane", "colony", "sector", "phase">>),
           WS1, Opt(Cat(<<Lit("no"), Opt(Lit(".")), Star(WS)>>)), Plus(D), WB>>),
     Cat(<<WB, Plus(D), Opt(Cls(LowerSet)), Plus(Cls(SpaceSet \cup {","})), Opt(Cat(<<Lit("main"), WS1>>)),
           Words(<<"road", "street", "lane", "avenue", "marg", "nagar", "colony", "sector", "phase",
                   "block">>), WB>>) >>

SchoolCities ==
  <<"delhi", "mumbai", "bangalore", "chennai", "kolkata", "hyderabad", "pune", "ahmedabad", "jaipur",
    "lucknow", "kanpur", "nagpur", "indore", "bhopal", "visakhapatnam", "pimpri", "patna", "vadodara",
    "ludhiana", "rajkot", "kalyan", "vasai", "varanasi", "srinagar", "aurangabad", "dhanbad",
    "amritsar", "navi", "allahabad", "ranchi", "haora", "coimbatore", "jabalpur", "gwalior",
    "vijayawada", "jodhpur", "madurai", "raipur", "kota", "guwahati", "chandigarh", "solapur", "hubli",
    "tiruchirappalli", "bareilly", "mysore", "tiruppur", "gurgaon", "aligarh", "jalandhar",
    "bhubaneswar", "salem", "warangal", "guntur", "bhiwandi", "saharanpur", "gorakhpur", "bikaner",
    "amravati", "noida", "jamshedpur", "bhilai", "cuttack", "firozabad", "kochi", "bhavnagar",
    "dehradun", "durgapur", "asansol", "rourkela", "nanded", "kolhapur", "ajmer", "akola", "gulbarga",
    "jamnagar", "ujjain", "loni", "siliguri", "jhansi", "ulhasnagar", "jammu", "sangli", "mangalore",
    "erode", "belgaum", "ambattur", "tirunelveli", "malegaon", "gaya", "jalgaon", "udaipur",
    "maheshtala">>
HigherSecondary == Cat(<<Lit("higher"), WS1, Lit("secondary")>>)
SeniorSecondary == Cat(<<Lit("senior"), WS1, Lit("secondary")>>)

school_patterns ==
  << Cat(<<WB, Words(SchoolCities), WS1,
           Opt(Alt(<<Lit("public"), Lit("private"), Lit("international"), Lit("convent"), Lit("model"),
                     HigherSecondary, SeniorSecondary, Lit("primary"), Lit("elementary"), Lit("high"),
                     Lit("middle"), Lit("secondary")>>)),
           Star(WS), Lit("school"), WB>>),
     Cat(<<WB, Alt(<<Cat(<<Lit("st"), Opt(Lit("."))>>), Lit("saint")>>), WS1, Plus(Cls(LowerSet)),
           Opt(Lit("'s")), WS1, Words(<<"school", "college", "convent">>), WB>>),
     Cat(<<WB, Alt(<<Lit("dav"), Cat(<<Lit("kendriya"), WS1, Lit("vidyalaya")>>), Lit("kv"),
                     Cat(<<Lit("jawahar"), WS1, Lit("navodaya")>>), Lit("jnv"), Lit("sarvodaya"),
                     Lit("government"), Lit("govt")>>),
           WS1, Words(<<"school", "vidyalaya">>), WB>>),
     Cat(<<WB, Plus(Cls(LowerSet)), WS1,
           Alt(<<Lit("public"), Lit("international"), Lit("convent"), Lit("model"), Lit("english"),
                 HigherSecondary, SeniorSecondary>>),
           WS1, Lit("school"), WB>>) >>

name_patterns ==
  << Cat(<<WB, Lit("my"), WS1, Lit("name"), WS1, Lit("is"), WS1, CapWord, Star(Cat(<<WS1, CapWord>>)), WB>>),
     Cat(<<WB, Lit("i"), WS1, Lit("am"), WS1, CapWord, Star(Cat(<<WS1, CapWord>>)), WB>>),
     Cat(<<WB, Lit("call"), WS1, Lit("me"), WS1, CapWord, WB>>) >>

age_patterns ==
  << Cat(<<WB, Lit("i"), WS1, Lit("am"), WS1, Plus(D), WS1, Lit("year"), Opt(Lit("s")), WS1, Lit("old"), WB>>),
     Cat(<<WB, Lit("i"), WS1, Lit("am"), WS1, Lit("in"), WS1, Plus(D), Opt(Words(<<"th", "st", "nd", "rd">>)),
           WS1, Words(<<"class", "grade", "standard">>), WB>>),
     Cat(<<WB, Lit("class"), WS1, Plus(D), WB>>),
     Cat(<<WB, Lit("grade"), WS1, Plus(D), WB>>) >>

location_patterns ==
  << Cat(<<WB, Lit("i"), WS1, Lit("live"), WS1, Lit("in"), WS1, AnyCaseWord, Star(Cat(<<WS1, AnyCaseWord>>)), WB>>),
     Cat(<<WB, Lit("i"), WS1, Lit("am"), WS1, Lit("from"), WS1, AnyCaseWord, Star(Cat(<<WS1, AnyCaseWord>>)), WB>>),
     Cat(<<WB, Lit("my"), WS1, Words(<<"city", "town", "village", "area">>), WS1, Lit("is"), WS1, AnyCaseWord, WB>>) >>

sorry_pattern == Cat(<<WB, Lit("sorry"), WB>>)

\* the first "sorry" is kept, every later one is dropped (lines 657-670)
KeepFirst(content, m, first) ==
  SubSeq(content, 1, first - 1) \o SubFrom(sorry_pattern, "", content, m, first)
LimitSorryIn(content, m) ==
  IF CountFrom(sorry_pattern, m, 1) > 1
  THEN KeepFirst(content, m, Match(sorry_pattern, m, NextMatch(sorry_pattern, m, 1)))
  ELSE content
limit_sorry(content) == LimitSorryIn(content, lower(content))

\* The passes a text goes through, one after the other:
\*   sub    text = re.sub(re, repl, text, flags)
\*   names  text = re.sub(re, lambda m: re.sub(r'[A-Z][a-z]+', '[NAME_REDACTED]', m.group(0)), text)
\*   strip  text = text.strip()
\*   sorry  the loop that keeps the first "sorry"
\*   redact text = redact_pii(text)
PassOf(kind, re, repl, fold) == [kind |-> kind, re |-> re, repl |-> repl, fold |-> fold]
SubPass(re, repl, fold) == PassOf("sub", re, repl, fold)
SubPasses(patterns, repl, fold) == [k \in 1..Len(patterns) |-> SubPass(patterns[k], repl, fold)]
NamePasses(patterns) == [k \in 1..Len(patterns) |-> PassOf("names", patterns[k], "[NAME_REDACTED]", FALSE)]
OtherPass(kind) == PassOf(kind, WB, "", FALSE)

redact_passes ==
  SubPasses(phone_patterns, "[PHONE_REDACTED]", TRUE)
  \o <<SubPass(email_pattern, "[EMAIL_REDACTED]", FALSE)>>
  \o SubPasses(address_patterns, "[ADDRESS_REDACTED]", TRUE)
  \o SubPasses(school_patterns, "[SCHOOL_REDACTED]", TRUE)
  \o NamePasses(name_patterns)
  \o SubPasses(age_patterns, "[AGE_REDACTED]", TRUE)
  \o SubPasses(location_patterns, "[LOCATION_REDACTED]", TRUE)

RECURSIVE RunPasses(_, _, _)
RECURSIVE ApplyPass(_, _)
\* the passes from the k-th on; each is finished before the next starts
RunPasses(passes, k, text) ==
  IF text = text /\ k <= Len(passes) THEN RunPasses(passes, k + 1, ApplyPass(passes[k], text))
  ELSE text
ApplyPass(pass, text) ==
  CASE pass.kind = "sub" -> Sub(pass.re, pass.repl, text, pass.fold)
    [] pass.kind = "names" -> SubInnerFrom(pass.re, CapWord, pass.repl, text, 1)
    [] pass.kind = "strip" -> strip(text)
    [] pass.kind = "sorry" -> limit_sorry(text)
    [] pass.kind = "redact" -> IF text = "" THEN text ELSE RunPasses(redact_passes, 1, text)

redact_pii(text) == IF text = "" THEN text ELSE RunPasses(redact_passes, 1, text)

(***************************************************************************)
(* sanitize_memory_text, classify_mood_hint, extract_interest_tags,        *)
(* merge_with_limit (app.py, lines 252-289)                                *)
(***************************************************************************)
\* a cut that keeps the blanks before the ellipsis
TruncatedKeepSpace(cleaned) ==
  IF Len(cleaned) > MAX_MEMORY_TEXT_LENGTH
  THEN SubSeq(cleaned, 1, MAX_MEMORY_TEXT_LENGTH) \o "..."
  ELSE cleaned
\* a cut one character late
TruncatedLate(cleaned) ==
  IF Len(cleaned) > MAX_MEMORY_TEXT_LENGTH
  THEN rstrip(SubSeq(cleaned, 1, MAX_MEMORY_TEXT_LENGTH + 1)) \o "..."
  ELSE cleaned
Truncated(cleaned) ==
  IF Len(cleaned) > MAX_MEMORY_TEXT_LENGTH
  THEN rstrip(SubSeq(cleaned, 1, MAX_MEMORY_TEXT_LENGTH)) \o "..."
  ELSE cleaned
\* a text that is never cut
sanitize_uncut(text) == IF text = "" THEN "" ELSE strip(redact_pii(text))
sanitize_memory_text(text) == IF text = "" THEN "" ELSE Truncated(strip(redact_pii(text)))

AnyKeywordIn(keywords, lowered) == \E k \in 1..Len(keywords) : Contains(lowered, keywords[k])

MoodIn(lowered) ==
  IF AnyKeywordIn(NEGATIVE_KEYWORDS, lowered) THEN "needs_support"
  ELSE IF AnyKeywordIn(POSITIVE_KEYWORDS, lowered) THEN "upbeat"
  ELSE "neutral"
classify_mood_hint(text) == MoodIn(lower(text))

RECURSIVE TagsFrom(_, _)
TagsFrom(k, lowered) ==
  IF k > Len(INTEREST_KEYWORDS) THEN <<>>
  ELSE (IF AnyKeywordIn(INTEREST_KEYWORDS[k][2], lowered) THEN <<INTEREST_KEYWORDS[k][1]>> ELSE <<>>)
       \o TagsFrom(k + 1, lowered)
extract_interest_tags(text) == TagsFrom(1, lower(text))

Range(seq) == {seq[k] : k \in 1..Len(seq)}
\* a slice that keeps everything
LastNAll(seq, n) == seq
\* list[-n:] for n > 0
LastN(seq, n) == IF Len(seq) <= n THEN seq ELSE SubSeq(seq, Len(seq) - n + 1, Len(seq))

\* the loop of merge_with_limit: items not yet seen (and truthy) are appended in order
RECURSIVE MergeLoop(_, _)
MergeLoop(items, merged) ==
  IF items = <<>> THEN merged
  ELSE CHOOSE out \in
         {MergeLoop(Tail(items), next) :
            next \in {IF Head(items) # "" /\ Head(items) \notin Range(merged)
                      THEN Append(merged, Head(items)) ELSE merged}} : TRUE

\* a merge that forgets the limit
merge_unbounded(existing, new_items, limit) == MergeLoop(existing \o new_items, <<>>)
\* a merge that keeps the first limit items
merge_keep_first(existing, new_items, limit) ==
  SubSeq(MergeLoop(existing \o new_items, <<>>), 1, Min({limit, Len(MergeLoop(existing \o new_items, <<>>))}))
merge_with_limit(existing, new_items, limit) ==
  LET merged == MergeLoop(existing \o new_items, <<>>)
  IN IF limit # 0 THEN LastN(merged, limit) ELSE merged

(***************************************************************************)
(* The cleaning of the model's reply in call_openrouter_api                *)
(* (app.py, lines 643-672)                                                 *)
(***************************************************************************)
\* . (any character but a line break)
AnyChar == NCls({"\n"})
tag_pattern == Cat(<<Lit("<"), Plus(NCls({">"})), Lit(">")>>)
meta_bracket_pattern ==
  Cat(<<Lit("["), Lazy(AnyChar, 0, -1),
        Words(<<"system", "prompt", "instruction", "guideline", "rule", "meta">>),
        Lazy(AnyChar, 0, -1), Lit("]")>>)
following_pattern ==
  Cat(<<Words(<<"according to", "based on", "as per", "following">>), Star(AnyChar),
        Words(<<"guideline", "instruction", "prompt">>)>>)
programmed_pattern ==
  Cat(<<Lit("i"), Alt(<<Lit("'m"), Lit(" am")>>), Lit(" "),
        Words(<<"programmed", "designed", "instructed", "trained">>), Lit(" to")>>)
my_programming_pattern ==
  Cat(<<Lit("my "), Words(<<"programming", "instructions", "guidelines">>), Lit(" "),
        Words(<<"say", "tell", "require">>)>>)
important_pattern ==
  Cat(<<Lit("it is "), Words(<<"important", "crucial", "essential">>), Lit(" to "),
        Words(<<"note", "understand", "remember", "recognize">>), Lit(" that")>>)
please_pattern ==
  Cat(<<Lit("please "), Words(<<"note", "understand", "remember", "be aware">>), Lit(" that")>>)
clean_passes ==
  <<OtherPass("strip"),
    SubPass(tag_pattern, "", FALSE),
    SubPass(meta_bracket_pattern, "", TRUE),
    SubPass(following_pattern, "", TRUE),
    SubPass(programmed_pattern, "I", TRUE),
    SubPass(my_programming_pattern, "I think", TRUE),
    SubPass(important_pattern, "", TRUE),
    SubPass(please_pattern, "", TRUE),
    SubPass(Lit("however,"), "But", TRUE),
    SubPass(Lit("therefore,"), "So", TRUE),
    SubPass(Lit("nevertheless,"), "But", TRUE),
    OtherPass("sorry"),
    OtherPass("redact"),
    OtherPass("strip")>>
clean_response(raw) == RunPasses(clean_passes, 1, raw)

fallback_responses ==
  <<"Hey! Tell me more about that!", "That's interesting! What's on your mind?",
    "Cool! What do you wanna explore?", "I'm here! What's up?", "Hey there! How can I help?">>

(***************************************************************************)
(* Bounds and inputs of the model                                          *)
(***************************************************************************)
\* handler calls in a run of Spec
MaxCalls == 2
\* seconds the clock may advance in a run
MaxClock == 1

\* messages posted to /chat
ChatMessages ==
  {"my name is Priya Sharma, i love coding robots and math",
   "drawing animals in the forest, football with a doctor",
   "Call me at 9876543210",
   "  ",
   "what is my email password"}
\* replies of the model (choices[0].message.content)
ModelReplies ==
  {"Sorry, I'm designed to help! <b>However,</b> so sorry, mail me at bot@mail.com",
   "That sounds fun! Tell me more",
   "Error: upstream"}
\* <<user_input, ai_response>> of direct calls of update_memory and log_conversation
DirectExchanges ==
  {<<"", "">>, <<"i am sad, my exam is at Delhi Public School", "ring 022-26543210">>}
\* an exchange of two texts longer than MAX_MEMORY_TEXT_LENGTH
RECURSIVE Repeat(_, _)
Repeat(s, k) ==
  IF k <= 0 THEN "" ELSE IF k = 1 THEN s ELSE Repeat(s, k \div 2) \o Repeat(s, k - k \div 2)
CutExchange == <<Repeat("i like drawing and my exam ", 12), Repeat("Great! ", 50)>>

(***************************************************************************)
(* What the text functions make of each text the handlers meet, computed   *)
(* once: redact_pii(text), sanitize_memory_text(text) and, of the          *)
(* sanitized text, classify_mood_hint and extract_interest_tags            *)
(***************************************************************************)
UserInputs == {strip(msg) : msg \in ChatMessages}
CleanedReply == [reply \in ModelReplies |-> clean_response(reply)]
AiResponses == {CleanedReply[reply] : reply \in ModelReplies} \cup Range(fallback_responses)
HandledTexts ==
  UserInputs \cup AiResponses \cup {ex[1] : ex \in DirectExchanges} \cup {ex[2] : ex \in DirectExchanges}
    \cup {CutExchange[1], CutExchange[2]}
FactsFrom(redacted, sanitized) ==
  [redacted |-> redacted, sanitized |-> sanitized,
   mood_hint |-> classify_mood_hint(sanitized), interest_tags |-> extract_interest_tags(sanitized)]
FactsOf(text) == FactsFrom(redact_pii(text), sanitize_memory_text(text))
TextFacts == [text \in HandledTexts |-> FactsOf(text)]

(***************************************************************************)
(* The persisted documents (app.py, lines 133-169).  A file is missing,    *)
(* empty (or blank), not JSON ("garbage"), JSON of another type            *)
(* ("scalar"), a JSON array ("list") or a JSON object ("dict"); an object  *)
(* is a function from its keys.                                            *)
(***************************************************************************)
FileOf(kind, val) == [kind |-> kind, val |-> val]
MissingFile == FileOf("missing", <<>>)
EmptyFile == FileOf("empty", <<>>)
GarbageFile == FileOf("garbage", <<>>)
ScalarFile == FileOf("scalar", <<>>)
EmptyDict == [key \in {} |-> 0]
Get(dict, key, default) == IF key \in DOMAIN dict THEN dict[key] ELSE default
Put(dict, key, value) == [k \in DOMAIN dict \cup {key} |-> IF k = key THEN value ELSE dict[k]]

\* a loader whose fallback is not the empty object
load_summary_seeded(file) == IF file.kind = "dict" THEN file.val ELSE [conversation_count |-> 1]
load_summary(file) == IF file.kind = "dict" THEN file.val ELSE EmptyDict
\* open(SUMMARY_FILE, "w") truncates; json.dump writes the object
save_summary(summary) == FileOf("dict", summary)
load_recent_context(file) ==
  IF file.kind = "list" THEN file.val
  ELSE IF file.kind = "dict" THEN <<>>
  ELSE <<>>
save_recent_context(context) == FileOf("list", context)

(***************************************************************************)
(* pick_interest_phrase, generate_intro_message (app.py, lines 291-347),   *)
(* as a function of the summary that load_summary returned.  The dash and  *)
(* the apostrophes of the messages are written in ASCII.                   *)
(***************************************************************************)
INTEREST_FRIENDLY_NAMES ==
  [science |-> "science adventures", technology |-> "coding and technology ideas",
   math |-> "math puzzles", art |-> "creative projects", sports |-> "sports challenges",
   nature |-> "nature discoveries", animals |-> "animal stories",
   helping |-> "careers that help people"]
\* the phrase of the last tag that has one; "" stands for None
PhraseOfLast(interest_tags, named) ==
  IF named = {} THEN "" ELSE INTEREST_FRIENDLY_NAMES[interest_tags[Max(named)]]
pick_interest_phrase(interest_tags) ==
  PhraseOfLast(interest_tags,
               {k \in 1..Len(interest_tags) : interest_tags[k] \in DOMAIN INTEREST_FRIENDLY_NAMES})

cold_start_greeting ==
  "Hey hey! I'm Aspire, your career buddy. Ready to dream up something cool together today?"
mood_openers ==
  [needs_support |-> "Hey buddy, I'm really glad you dropped in.",
   upbeat |-> "Hey superstar! So happy to see you again!",
   neutral |-> "Hi friend! I'm excited to hang out again."]
\* lines 309-312
LastMood(recent_moods) == IF recent_moods = <<>> THEN "neutral" ELSE recent_moods[Len(recent_moods)]
Opener(last_mood) ==
  IF last_mood \in DOMAIN mood_openers THEN mood_openers[last_mood] ELSE mood_openers["neutral"]
\* lines 315-318
ExamHint(highlights) == \E k \in 1..Len(highlights) : Contains(lower(highlights[k]), "exam")
\* lines 335-341: the last highlight that is not empty, clipped to 80 characters
Clipped(snippet) == IF Len(snippet) <= 80 THEN snippet ELSE SubSeq(snippet, 1, 77) \o "..."
SnippetOf(highlights, filled) == IF filled = {} THEN "" ELSE highlights[Max(filled)]
LastSnippet(highlights) ==
  SnippetOf(highlights, {k \in 1..Len(highlights) : highlights[k] # ""})
SnippetPart(snippet) ==
  IF snippet = "" THEN ""
  ELSE " I've been thinking about that awesome bit you shared: " \o Clipped(snippet)
         \o ". Want to build on it?"
\* a second part that asks about the interest before the exam
MiddlePartInterestFirst(highlights, interest_phrase) ==
  IF interest_phrase # ""
  THEN " Keen to dive back into those " \o interest_phrase \o "? I have a fun twist ready."
  ELSE IF ExamHint(highlights)
  THEN " How did that exam go-want to celebrate wins or tackle tricky bits together?"
  ELSE IF highlights # <<>> THEN SnippetPart(LastSnippet(highlights))
  ELSE ""
\* lines 331-341: the second part of the message, with the blank that joins it
MiddlePart(highlights, interest_phrase) ==
  IF ExamHint(highlights)
  THEN " How did that exam go-want to celebrate wins or tackle tricky bits together?"
  ELSE IF interest_phrase # ""
  THEN " Keen to dive back into those " \o interest_phrase \o "? I have a fun twist ready."
  ELSE IF highlights # <<>> THEN SnippetPart(LastSnippet(highlights))
  ELSE ""
\* lines 343-346
LastPart(last_mood) ==
  IF last_mood = "needs_support"
  THEN " Tell me what's on your mind and we'll handle it together."
  ELSE " What should we explore first today?"
Composed(interest_tags, highlights, last_mood) ==
  Opener(last_mood) \o MiddlePart(highlights, pick_interest_phrase(interest_tags)) \o LastPart(last_mood)
\* lines 309-347: the message for a summary that is not empty
ComposedFrom(summary) ==
  Composed(Get(summary, "interest_tags", <<>>), Get(summary, "recent_highlights", <<>>),
           LastMood(Get(summary, "recent_moods", <<>>)))
\* a greeting that is composed for the empty summary as well
intro_without_cold_start(summary) == ComposedFrom(summary)
generate_intro_message(summary) ==
  IF DOMAIN summary = {} THEN cold_start_greeting ELSE ComposedFrom(summary)

(***************************************************************************)
(* update_memory (app.py, lines 711-744), step by step                     *)
(***************************************************************************)
HighlightsKept == 3

\* datetime.now() is counted in seconds: isoformat(timespec="seconds") keeps the
\* second, strftime("%Y-%m-%d %H:%M") the minute, strftime("%H:%M") the minute of the day
SecondsPerMinute == 60
MinutesPerDay == 1440
isoformat_seconds(now) == now
strftime_date_minute(now) == now \div SecondsPerMinute
strftime_minute(now) == (now \div SecondsPerMinute) % MinutesPerDay

\* lines 713-727; user and agent are what the text functions make of the two texts
MemoryEntry(now, user, agent) ==
  [timestamp |-> isoformat_seconds(now), user |-> user.sanitized, agent |-> agent.sanitized,
   mood_hint |-> user.mood_hint, interest_tags |-> user.interest_tags]

\* a context that keeps its first entries
AppendEntryKeepFirst(recent_context, entry) ==
  SubSeq(Append(recent_context, entry), 1, Min({MAX_MEMORY_ENTRIES, Len(recent_context) + 1}))
\* lines 720-728
AppendEntry(recent_context, entry) == LastN(Append(recent_context, entry), MAX_MEMORY_ENTRIES)

\* line 741: [item.get("user", "") for item in recent_context if item.get("user")]
\* highlights that keep the empty texts
HighlightsAll(recent_context) == [k \in 1..Len(recent_context) |-> recent_context[k].user]
Highlights(recent_context) ==
  SelectSeq([k \in 1..Len(recent_context) |-> recent_context[k].user], LAMBDA u : u # "")

\* a count that is only set when the key is missing
NextCountStuck(summary) == Get(summary, "conversation_count", 1)
\* line 733: int(summary.get("conversation_count", 0)) + 1 (the stored count is an integer)
NextCount(summary) == Get(summary, "conversation_count", 0) + 1

\* lines 732-742: five keys are set, every other key of the loaded object is kept
SummaryKeys == {"last_updated", "conversation_count", "recent_moods", "interest_tags", "recent_highlights"}
UpdateSummary(summary, recent_context, now, mood_hint, interest_tags) ==
  [key \in DOMAIN summary \cup SummaryKeys |->
     CASE key = "last_updated" -> strftime_date_minute(now)
       [] key = "conversation_count" -> NextCount(summary)
       [] key = "recent_moods" ->
            LastN(Append(Get(summary, "recent_moods", <<>>), mood_hint), MAX_MEMORY_ENTRIES)
       [] key = "interest_tags" ->
            merge_with_limit(Get(summary, "interest_tags", <<>>), interest_tags, MAX_INTEREST_TAGS)
       [] key = "recent_highlights" -> LastN(Highlights(recent_context), HighlightsKept)
       [] OTHER -> summary[key]]

(***************************************************************************)
(* State                                                                   *)
(***************************************************************************)
VARIABLES
  ctxFile,              \* memory/recent_context.json
  sumFile,              \* memory/conversation_summary.json
  daily_conversations,  \* the in-memory log of the day
  outbound,             \* the user messages posted to the model so far
  clock,                \* datetime.now(), in seconds
  calls,                \* handler calls made so far
  recorded,             \* the MemoryEntry of every completed update_memory, in order
  lock,                 \* memory_lock: the thread that holds it, or NoThread
  pc,                   \* where each thread is in its call
  local,                \* the local variables of each thread in update_memory
  seen,                 \* what each reading thread has loaded
  before,               \* the two documents as they were when the call in progress began
  existing,             \* merge_with_limit: the first argument
  new_items,            \* merge_with_limit: the second argument
  merged,               \* merge_with_limit: the result
  given,                \* the text handed to a text function
  applied,              \* the text function applied to it
  results,              \* what the function returned, and what it returned for that
  diary_entries,        \* the diary of each date
  auto_diary_generated_today,
  generated,            \* the date and the trigger of every diary generation, in order
  end_pc,               \* where the thread in end_day is in its call
  end_calls,            \* calls of end_day made so far
  saved_document,       \* the exchanges save_daily_conversation wrote to the document of the day
  diary_input           \* the exchanges generate_diary_entry put into its prompt for end_day

docVars == <<ctxFile, sumFile>>
handlerVars == <<daily_conversations, outbound, clock, calls>>
threadVars == <<lock, pc, local, seen, before>>
mergeVars == <<existing, new_items, merged>>
textVars == <<given, applied, results>>
endVars == <<end_pc, end_calls, saved_document, diary_input>>
diaryVars == <<diary_entries, auto_diary_generated_today, generated, endVars>>
vars == <<docVars, handlerVars, recorded, threadVars, mergeVars, textVars, diaryVars>>

\* threads that call update_memory
NWriters == 2
Writers == 1..NWriters
\* a thread in call_openrouter_api and a thread in generate_intro_message
Caller == NWriters + 1
Greeter == NWriters + 2
Readers == {Caller, Greeter}
NoThread == 0

\* what load_recent_context and load_summary treat as no data
ZeroFiles == {MissingFile, EmptyFile, GarbageFile, ScalarFile}
\* a summary written by an earlier run of the program
EarlierSummary ==
  [last_updated |-> 0, conversation_count |-> 7, recent_moods |-> <<"neutral">>,
   interest_tags |-> <<"math", "art", "sports", "nature", "animals", "helping">>,
   recent_highlights |-> <<>>]

NoLocals ==
  [entry |-> [timestamp |-> 0, user |-> "", agent |-> "", mood_hint |-> "neutral", interest_tags |-> <<>>],
   recent_context |-> <<>>, summary |-> EmptyDict]
NothingSeen == [recent_context |-> <<>>, summary |-> EmptyDict, torn |-> FALSE]

\* no request has been handled
Quiet ==
  /\ daily_conversations = <<>>
  /\ outbound = {}
  /\ clock = 0
  /\ calls = 0
  /\ recorded = <<>>
\* no thread is in a call
Idle ==
  /\ lock = NoThread
  /\ pc = [t \in Writers \cup Readers |-> "idle"]
  /\ local = [t \in Writers |-> NoLocals]
  /\ seen = [t \in Readers |-> NothingSeen]
  /\ before = [t \in Writers |-> <<MissingFile, MissingFile>>]
Unmerged ==
  /\ existing = <<>>
  /\ new_items = <<>>
  /\ merged = <<>>
\* no text function has been called
Unapplied ==
  /\ applied = ""
  /\ results = <<>>
\* lines 103-104: diary_entries = {}, auto_diary_generated_today = False
NoDiary ==
  /\ diary_entries = EmptyDict
  /\ auto_diary_generated_today = FALSE
  /\ generated = <<>>
  /\ end_pc = "idle"
  /\ end_calls = 0
  /\ saved_document = <<>>
  /\ diary_input = <<>>
\* the memory directory is empty
EmptyStore ==
  /\ ctxFile = MissingFile
  /\ sumFile = MissingFile
\* the memory directory as the program may find it
AnyStore ==
  /\ ctxFile \in ZeroFiles \cup {FileOf("dict", EmptyDict)}
  /\ sumFile \in ZeroFiles \cup {FileOf("list", <<>>), FileOf("dict", EmptyDict),
                                 FileOf("dict", EarlierSummary)}

\* the program starts on whatever the memory directory holds
Init == AnyStore /\ Quiet /\ Idle /\ Unmerged /\ given = "" /\ Unapplied /\ NoDiary
\* the program starts on an empty memory directory
InitEmpty == EmptyStore /\ Quiet /\ Idle /\ Unmerged /\ given = "" /\ Unapplied /\ NoDiary

(***************************************************************************)
(* The handlers, one call at a time                                        *)
(***************************************************************************)
\* a log entry that keeps the texts as they came
LoggedEntryRaw(facts, user_input, ai_response) ==
  [time |-> strftime_minute(clock), user |-> user_input, agent |-> ai_response,
   datetime |-> clock, original_user_length |-> Len(user_input),
   original_agent_length |-> Len(ai_response)]
\* log_conversation (lines 693-709); facts is TextFacts
LoggedEntry(facts, user_input, ai_response) ==
  [time |-> strftime_minute(clock), user |-> facts[user_input].redacted,
   agent |-> facts[ai_response].redacted, datetime |-> clock, original_user_length |-> Len(user_input),
   original_agent_length |-> Len(ai_response)]
log_conversation(facts, user_input, ai_response) ==
  daily_conversations' = Append(daily_conversations, LoggedEntry(facts, user_input, ai_response))

\* update_memory (lines 711-744), the whole call: the entry is built (lines 713-727),
\* the context is loaded, extended and saved (lines 720-729), then the summary
\* (lines 731-743)
SaveMemory(entry, recent_context) ==
  /\ ctxFile' = save_recent_context(recent_context)
  /\ sumFile' = save_summary(UpdateSummary(load_summary(sumFile), recent_context, clock,
                                           entry.mood_hint, entry.interest_tags))
  /\ recorded' = Append(recorded, entry)
Remember(entry) == SaveMemory(entry, AppendEntry(load_recent_context(ctxFile), entry))
update_memory(facts, user_input, ai_response) ==
  Remember(MemoryEntry(clock, facts[user_input], facts[ai_response]))

inappropriate_keywords == <<"password", "credit card", "phone number", "address", "email">>
MaxMessageLength == 500
\* chat() answers without calling the model (lines 1028-1046)
Rejected(user_input) ==
  \/ user_input = ""
  \/ Len(user_input) > MaxMessageLength
  \/ AnyKeywordIn(inappropriate_keywords, lower(user_input))
IsRejected == [user_input \in UserInputs |-> Rejected(user_input)]

\* chat() (lines 1016-1074) from the call of call_openrouter_api on, with a model
\* that answers ai_response; the user message of the request is safe_input
\* (lines 579-632)
Respond(facts, user_input, ai_response) ==
  /\ outbound' = outbound \cup {facts[user_input].redacted}
  /\ IF StartsWith(ai_response, "Error:")
     THEN UNCHANGED <<ctxFile, sumFile, daily_conversations, recorded>>
     ELSE /\ log_conversation(facts, user_input, ai_response)
          /\ update_memory(facts, user_input, ai_response)

\* chat() (lines 1016-1074)
Chat(facts, user_input, ai_response) ==
  /\ calls < MaxCalls
  /\ calls' = calls + 1
  /\ UNCHANGED <<clock, threadVars, mergeVars, textVars, diaryVars>>
  /\ IF IsRejected[user_input]
     THEN UNCHANGED <<ctxFile, sumFile, daily_conversations, outbound, recorded>>
     ELSE Respond(facts, user_input, ai_response)

\* the model answers reply (status 200, lines 643-672)
ChatAnswered ==
  \E message \in ChatMessages, reply \in ModelReplies : Chat(TextFacts, strip(message), CleanedReply[reply])
\* the request fails or the answer has no choices: get_fallback_response (lines 634-641, 674-689)
ChatFallback ==
  \E message \in ChatMessages, k \in 1..Len(fallback_responses) :
     Chat(TextFacts, strip(message), fallback_responses[k])

\* update_memory called on its own
RecordExchange ==
  \E ex \in DirectExchanges :
     /\ calls < MaxCalls
     /\ calls' = calls + 1
     /\ update_memory(TextFacts, ex[1], ex[2])
     /\ UNCHANGED <<daily_conversations, outbound, clock, threadVars, mergeVars, textVars, diaryVars>>

\* log_conversation called on its own
LogExchange ==
  \E ex \in DirectExchanges :
     /\ calls < MaxCalls
     /\ calls' = calls + 1
     /\ log_conversation(TextFacts, ex[1], ex[2])
     /\ UNCHANGED <<ctxFile, sumFile, outbound, clock, recorded, threadVars, mergeVars, textVars, diaryVars>>

\* time passes
Tick ==
  /\ clock < MaxClock
  /\ clock' = clock + 1
  /\ UNCHANGED <<ctxFile, sumFile, daily_conversations, outbound, calls, recorded, threadVars, mergeVars, textVars, diaryVars>>

Next == ChatAnswered \/ ChatFallback \/ RecordExchange \/ LogExchange \/ Tick

Spec == Init /\ [][Next]_vars

(***************************************************************************)
(* Twelve and more calls of update_memory in a row on an empty store       *)
(***************************************************************************)
MaxLong == 12
LongExchanges ==
  {<<"my name is Priya Sharma, i love coding robots and math", "That sounds fun! Tell me more">>,
   <<"drawing animals in the forest, football with a doctor", "Hey! Tell me more about that!">>}

RecordNext ==
  \E ex \in LongExchanges :
     /\ Len(recorded) < MaxLong
     /\ update_memory(TextFacts, ex[1], ex[2])
     /\ UNCHANGED <<handlerVars, threadVars, mergeVars, textVars, diaryVars>>

SpecLong == InitEmpty /\ [][RecordNext]_vars

(***************************************************************************)
(* update_memory step by step (lines 711-744), with threads                *)
(***************************************************************************)
At(t, point) == pc[t] = point
Goto(t, point) == pc' = [pc EXCEPT ![t] = point]
\* an acquirer that does not wait for the lock
LockIgnored(holder) == TRUE
\* memory_lock can be acquired (line 718)
LockFree(holder) == holder = NoThread

\* lines 713-716: the texts are sanitized and classified before the lock is taken
Begin(facts, t, ex) ==
  /\ At(t, "idle")
  /\ calls < MaxCalls
  /\ calls' = calls + 1
  /\ local' = [local EXCEPT ![t] = [NoLocals EXCEPT !.entry = MemoryEntry(clock, facts[ex[1]], facts[ex[2]])]]
  /\ Goto(t, "lock")
  /\ UNCHANGED <<docVars, daily_conversations, outbound, clock, recorded, lock, seen, before, mergeVars, textVars, diaryVars>>
\* line 718: with memory_lock
Acquire(t) ==
  /\ At(t, "lock")
  /\ LockFree(lock)
  /\ lock' = t
  /\ before' = [before EXCEPT ![t] = <<ctxFile, sumFile>>]
  /\ Goto(t, "load_context")
  /\ UNCHANGED <<docVars, handlerVars, recorded, local, seen, mergeVars, textVars, diaryVars>>
\* lines 719-728: the context is loaded, the entry appended, the list cut to its last ten
LoadContext(t) ==
  /\ At(t, "load_context")
  /\ local' = [local EXCEPT ![t].recent_context =
                 AppendEntry(load_recent_context(ctxFile),
                             [local[t].entry EXCEPT !.timestamp = isoformat_seconds(clock)])]
  /\ Goto(t, "open_context")
  /\ UNCHANGED <<docVars, handlerVars, recorded, lock, seen, before, mergeVars, textVars, diaryVars>>
\* line 168: open(RECENT_CONTEXT_FILE, "w") empties the file
OpenContext(t) ==
  /\ At(t, "open_context")
  /\ ctxFile' = EmptyFile
  /\ Goto(t, "dump_context")
  /\ UNCHANGED <<sumFile, handlerVars, recorded, lock, local, seen, before, mergeVars, textVars, diaryVars>>
\* line 169: json.dump and the closing of the file
DumpContext(t) ==
  /\ At(t, "dump_context")
  /\ ctxFile' = save_recent_context(local[t].recent_context)
  /\ Goto(t, "load_summary")
  /\ UNCHANGED <<sumFile, handlerVars, recorded, lock, local, seen, before, mergeVars, textVars, diaryVars>>
\* lines 731-742: the summary is loaded and brought up to date
LoadSummary(t) ==
  /\ At(t, "load_summary")
  /\ local' = [local EXCEPT ![t].summary =
                 UpdateSummary(load_summary(sumFile), local[t].recent_context, clock,
                               local[t].entry.mood_hint, local[t].entry.interest_tags)]
  /\ Goto(t, "open_summary")
  /\ UNCHANGED <<docVars, handlerVars, recorded, lock, seen, before, mergeVars, textVars, diaryVars>>
\* line 149: open(SUMMARY_FILE, "w") empties the file
OpenSummary(t) ==
  /\ At(t, "open_summary")
  /\ sumFile' = EmptyFile
  /\ Goto(t, "dump_summary")
  /\ UNCHANGED <<ctxFile, handlerVars, recorded, lock, local, seen, before, mergeVars, textVars, diaryVars>>
\* line 150: json.dump and the closing of the file
DumpSummary(t) ==
  /\ At(t, "dump_summary")
  /\ sumFile' = save_summary(local[t].summary)
  /\ Goto(t, "unlock")
  /\ UNCHANGED <<ctxFile, handlerVars, recorded, lock, local, seen, before, mergeVars, textVars, diaryVars>>
\* the end of the with block: the lock is released and the call returns
Release(t) ==
  /\ At(t, "unlock")
  /\ lock' = NoThread
  /\ recorded' = Append(recorded, local[t].recent_context[Len(local[t].recent_context)])
  /\ Goto(t, "done")
  /\ UNCHANGED <<docVars, handlerVars, local, seen, before, mergeVars, textVars, diaryVars>>

\* the steps of a thread in update_memory after its start
WriterStep(t) ==
  \/ Acquire(t)
  \/ LoadContext(t)
  \/ OpenContext(t)
  \/ DumpContext(t)
  \/ LoadSummary(t)
  \/ OpenSummary(t)
  \/ DumpSummary(t)
  \/ Release(t)

\* a writer has the file open for writing
Overwriting(point) == \E t \in Writers : At(t, point)

\* call_openrouter_api, lines 580-581: the two documents are loaded, the context
\* first, and memory_lock is not taken
CallerLoadsContext ==
  /\ At(Caller, "idle")
  /\ seen' = [seen EXCEPT ![Caller] =
                [@ EXCEPT !.recent_context = load_recent_context(ctxFile),
                          !.torn = Overwriting("dump_context")]]
  /\ Goto(Caller, "load_summary")
  /\ UNCHANGED <<docVars, handlerVars, recorded, lock, local, before, mergeVars, textVars, diaryVars>>
CallerLoadsSummary ==
  /\ At(Caller, "load_summary")
  /\ seen' = [seen EXCEPT ![Caller] =
                [@ EXCEPT !.summary = load_summary(sumFile),
                          !.torn = @ \/ Overwriting("dump_summary")]]
  /\ Goto(Caller, "done")
  /\ UNCHANGED <<docVars, handlerVars, recorded, lock, local, before, mergeVars, textVars, diaryVars>>
\* generate_intro_message, line 303: the summary is loaded, memory_lock is not taken
GreeterLoadsSummary ==
  /\ At(Greeter, "idle")
  /\ seen' = [seen EXCEPT ![Greeter] =
                [@ EXCEPT !.summary = load_summary(sumFile), !.torn = Overwriting("dump_summary")]]
  /\ Goto(Greeter, "done")
  /\ UNCHANGED <<docVars, handlerVars, recorded, lock, local, before, mergeVars, textVars, diaryVars>>

NextThreads ==
  \/ \E t \in Writers, ex \in LongExchanges : Begin(TextFacts, t, ex)
  \/ \E t \in Writers : WriterStep(t)
  \/ CallerLoadsContext
  \/ CallerLoadsSummary
  \/ GreeterLoadsSummary
SpecThreads == InitEmpty /\ [][NextThreads]_vars

(***************************************************************************)
(* update_memory step by step, one call after the other, with reads and    *)
(* writes that can fail                                                    *)
(***************************************************************************)
\* the points of update_memory at which a file is opened, read or written
IOPoints ==
  {"load_context", "open_context", "dump_context", "load_summary", "open_summary", "dump_summary"}
FirstWriter == 1

\* a failure that leaves the lock with the thread that failed
FailHolding(t) ==
  /\ pc[t] \in IOPoints
  /\ Goto(t, "failed")
  /\ UNCHANGED <<docVars, handlerVars, recorded, lock, local, seen, before, mergeVars, textVars, diaryVars>>
\* the operating system refuses the open, the read or the write: OSError leaves
\* update_memory through the with block, which releases the lock
Fail(t) ==
  /\ pc[t] \in IOPoints
  /\ lock' = NoThread
  /\ Goto(t, "failed")
  /\ UNCHANGED <<docVars, handlerVars, recorded, local, seen, before, mergeVars, textVars, diaryVars>>
\* the next request
Again(t) ==
  /\ pc[t] \in {"done", "failed"}
  /\ Goto(t, "idle")
  /\ UNCHANGED <<docVars, handlerVars, recorded, lock, local, seen, before, mergeVars, textVars, diaryVars>>

NextIO ==
  \/ \E ex \in LongExchanges : Begin(TextFacts, FirstWriter, ex)
  \/ WriterStep(FirstWriter)
  \/ Fail(FirstWriter)
  \/ Again(FirstWriter)
SpecIO == Init /\ [][NextIO]_vars

(***************************************************************************)
(* update_memory step by step, with threads, with reads and writes that    *)
(* can fail, and with a scheduler that is fair to every thread             *)
(***************************************************************************)
\* a thread inside the with block goes on: its next step is taken or fails
Proceed(t) ==
  \/ LoadContext(t)
  \/ OpenContext(t)
  \/ DumpContext(t)
  \/ LoadSummary(t)
  \/ OpenSummary(t)
  \/ DumpSummary(t)
  \/ Release(t)
  \/ Fail(t)
NextLive ==
  \/ \E t \in Writers, ex \in LongExchanges : Begin(TextFacts, t, ex)
  \/ \E t \in Writers : WriterStep(t)
  \/ \E t \in Writers : Fail(t)
\* a running thread is scheduled again and again (weak fairness), and a thread that
\* waits for memory_lock gets it if it is free again and again (strong fairness)
Fairness == \A t \in Writers : WF_vars(Proceed(t)) /\ SF_vars(Acquire(t))
SpecLive == InitEmpty /\ [][NextLive]_vars /\ Fairness

(***************************************************************************)
(* merge_with_limit on lists over the tag vocabulary.  The function        *)
(* compares tags and nothing else, so the lists are built up to a renaming *)
(* of the tags: a list is extended by a tag already used or by the first   *)
(* tag of the vocabulary not used yet.                                     *)
(***************************************************************************)
MaxExisting == 6
MaxNew == 2
TagOrder == [k \in 1..Len(INTEREST_KEYWORDS) |-> INTEREST_KEYWORDS[k][1]]
UsedTags == Range(existing) \cup Range(new_items)
Unused == {k \in 1..Len(TagOrder) : TagOrder[k] \notin UsedTags}
Candidates == UsedTags \cup {TagOrder[k] : k \in {j \in Unused : \A i \in Unused : j <= i}}

ExtendExisting ==
  \E tag \in Candidates :
     /\ new_items = <<>>
     /\ Len(existing) < MaxExisting
     /\ existing' = Append(existing, tag)
     /\ merged' = merge_with_limit(existing', new_items, MAX_INTEREST_TAGS)
     /\ UNCHANGED <<docVars, handlerVars, recorded, threadVars, new_items, textVars, diaryVars>>
ExtendNew ==
  \E tag \in Candidates :
     /\ Len(new_items) < MaxNew
     /\ new_items' = Append(new_items, tag)
     /\ merged' = merge_with_limit(existing, new_items', MAX_INTEREST_TAGS)
     /\ UNCHANGED <<docVars, handlerVars, recorded, threadVars, existing, textVars, diaryVars>>

NextMerge == ExtendExisting \/ ExtendNew
SpecMerge == InitEmpty /\ [][NextMerge]_vars

(***************************************************************************)
(* update_memory called again and again on an empty store, with texts that *)
(* are empty, short and long                                               *)
(***************************************************************************)
MaxRecords == 5
RecordedExchanges == DirectExchanges \cup {CutExchange}

RecordAny ==
  \E ex \in RecordedExchanges :
     /\ Len(recorded) < MaxRecords
     /\ update_memory(TextFacts, ex[1], ex[2])
     /\ UNCHANGED <<handlerVars, threadVars, mergeVars, textVars, diaryVars>>

SpecRecord == InitEmpty /\ [][RecordAny]_vars

(***************************************************************************)
(* generate_intro_message between the calls of update_memory               *)
(***************************************************************************)
\* lines 301-347: the summary is loaded and the greeting returned
Greet ==
  /\ applied' = "generate_intro_message"
  /\ results' = <<generate_intro_message(load_summary(sumFile))>>
  /\ UNCHANGED <<given, docVars, handlerVars, recorded, threadVars, mergeVars, diaryVars>>

NextIntro == Greet \/ RecordAny
SpecIntro == Init /\ [][NextIntro]_vars

\* generate_intro_message over summaries of many shapes
GreetedTags == {<<>>, <<"art">>, <<"art", "math">>, <<"math", "robots">>, <<"robots">>}
\* highlights of 80, 81 and 90 characters
Highlight80 == Repeat("abcdefgh", 10)
Highlight81 == Repeat("abcdefgh", 10) \o "i"
Highlight90 == Repeat("abcdefghi ", 9)
GreetedHighlights ==
  {<<>>, <<"">>, <<"hello there">>, <<"my Exam is near", "">>, <<"hello there", Highlight90, "">>,
   <<Highlight80>>, <<Highlight81>>}
GreetedMoods ==
  {<<>>, <<"upbeat">>, <<"upbeat", "needs_support">>, <<"needs_support", "moody">>, <<"neutral">>}
GreetedSummaries ==
  {[last_updated |-> 0, conversation_count |-> 3, recent_moods |-> moods,
    interest_tags |-> tags, recent_highlights |-> highlights] :
      moods \in GreetedMoods, tags \in GreetedTags, highlights \in GreetedHighlights}
    \cup {[conversation_count |-> 1]}
InitGreeting ==
  /\ ctxFile = MissingFile
  /\ sumFile \in {FileOf("dict", summary) : summary \in GreetedSummaries}
  /\ Quiet /\ Idle /\ Unmerged /\ given = "" /\ Unapplied /\ NoDiary
SpecGreeting == InitGreeting /\ [][Greet]_vars

(***************************************************************************)
(* The diary: generate_diary_entry (lines 786-894), the scheduled check    *)
(* (lines 914-936), end_day (lines 1075-1129) and manual_generate_diary    *)
(* (lines 1187-1200).  Dates are days and times of day are seconds.        *)
(***************************************************************************)
SecondsPerDay == SecondsPerMinute * MinutesPerDay
today_str(now) == now \div SecondsPerDay
time_of(now) == now % SecondsPerDay
\* line 918: time(23, 30); line 921: time(0, 30)
target_time == (23 * 60 + 30) * SecondsPerMinute
reset_time == 30 * SecondsPerMinute
\* line 936: threading.Timer(600.0, ...)
TimerPeriod == 600
\* line 852: timeout=30
RequestTimeout == 30
\* the seconds the request to the model may take
RequestTimes == {0, RequestTimeout}
\* timer checks in a run
MaxChecks == 4
\* the process starts at 23:29:50
StartClock == (23 * 60 + 29) * SecondsPerMinute + 50
LastCheck == StartClock + MaxChecks * TimerPeriod

\* what the model writes as the diary of the day
DiaryReplies == {"Today I asked about my exam. Call 9876543210", "Errors in my homework got fixed"}
\* the request fails (lines 879-893)
DiaryErrors == {"Error: Diary generation request timed out."}
DiaryOutcomes == DiaryReplies \cup DiaryErrors

\* lines 864-869
DiaryEntry(diary_content, now, conversation_count) ==
  [content |-> diary_content, generated_at |-> now, conversation_count |-> conversation_count]
\* a store that keeps the time and the count of the entry it replaces
StoredContentOnly(entries, key, fresh) ==
  [d \in DOMAIN entries \cup {key} |->
     IF d # key THEN entries[d]
     ELSE IF key \in DOMAIN entries THEN [entries[key] EXCEPT !.content = fresh.content]
     ELSE fresh]
\* diary_entries[today_str] = {...}
Stored(entries, key, fresh) ==
  [d \in DOMAIN entries \cup {key} |-> IF d = key THEN fresh ELSE entries[d]]
\* lines 855-874: the answer is redacted and stored under today's date
StoreDiary(trigger, diary_content, now) ==
  /\ diary_entries' = Stored(diary_entries, today_str(now),
                             DiaryEntry(diary_content, now, Len(daily_conversations)))
  /\ generated' = Append(generated, [trigger |-> trigger, date |-> today_str(now),
                                     content |-> diary_content, at |-> now])
\* lines 855-893: what generate_diary_entry returns after the request, computed once
DiaryResult == [outcome \in DiaryOutcomes |-> IF outcome \in DiaryReplies THEN redact_pii(outcome) ELSE outcome]
\* generate_diary_entry (lines 786-894) called by trigger when the request ends at now
\* with outcome; result is DiaryResult[outcome]
generate_diary_entry(trigger, outcome, result, now) ==
  IF daily_conversations # <<>> /\ outcome \in DiaryReplies
  THEN StoreDiary(trigger, result, now)
  ELSE UNCHANGED <<diary_entries, generated>>

\* lines 921-922: the flag after the reset
FlagAfterReset == IF time_of(clock) < reset_time THEN FALSE ELSE auto_diary_generated_today
\* lines 925-927
AutoDue(flag) == time_of(clock) >= target_time /\ ~flag /\ daily_conversations # <<>>
\* check_and_generate_auto_diary (lines 914-936); the next check is TimerPeriod after
\* the end of this one
CheckWith(outcome, result, took) ==
  IF AutoDue(FlagAfterReset)
  THEN /\ generate_diary_entry("scheduled", outcome, result, clock + took)
       /\ auto_diary_generated_today' = ~StartsWith(result, "Error")
       /\ clock' = clock + took + TimerPeriod
  ELSE /\ UNCHANGED <<diary_entries, generated>>
       /\ auto_diary_generated_today' = FlagAfterReset
       /\ clock' = clock + TimerPeriod
ScheduledCheck ==
  \E outcome \in DiaryOutcomes, took \in RequestTimes :
     /\ clock < LastCheck
     /\ CheckWith(outcome, DiaryResult[outcome], took)
     /\ UNCHANGED <<docVars, daily_conversations, outbound, calls, recorded, threadVars, mergeVars,
                    textVars, endVars>>

\* manual_generate_diary (lines 1187-1200)
ManualGenerate ==
  \E outcome \in DiaryOutcomes, parent_authenticated \in BOOLEAN :
     /\ calls < MaxCalls
     /\ calls' = calls + 1
     /\ IF parent_authenticated
        THEN generate_diary_entry("manual", outcome, DiaryResult[outcome], clock)
        ELSE UNCHANGED <<diary_entries, generated>>
     /\ UNCHANGED <<docVars, daily_conversations, outbound, clock, recorded, threadVars,
                    mergeVars, textVars, auto_diary_generated_today, endVars>>

\* end_day (lines 1075-1129): the diary is generated, then the log of the day is cleared
EndDay ==
  \E outcome \in DiaryOutcomes :
     /\ calls < MaxCalls
     /\ calls' = calls + 1
     /\ generate_diary_entry("end_day", outcome, DiaryResult[outcome], clock)
     /\ daily_conversations' = <<>>
     /\ UNCHANGED <<docVars, outbound, clock, recorded, threadVars, mergeVars, textVars,
                    auto_diary_generated_today, endVars>>

InitDiary ==
  /\ EmptyStore /\ Idle /\ Unmerged /\ given = "" /\ Unapplied /\ NoDiary
  /\ daily_conversations = <<>>
  /\ outbound = {}
  /\ calls = 0
  /\ recorded = <<>>
  /\ clock = StartClock
NextDiary == LogExchange \/ ScheduledCheck \/ ManualGenerate \/ EndDay
SpecDiary == InitDiary /\ [][NextDiary]_vars

(***************************************************************************)
(* end_day (lines 1075-1129) step by step, in its own thread, while chat   *)
(* requests of other threads call log_conversation.  daily_conversations   *)
(* is read and written without a lock.                                     *)
(***************************************************************************)
\* calls of end_day in a run
MaxEndDays == 1
EndGoto(point) ==
  /\ end_pc' = point
  /\ UNCHANGED <<docVars, outbound, clock, calls, recorded, threadVars, mergeVars, textVars,
                 auto_diary_generated_today>>
\* lines 1086-1092: with an empty log the request is answered at once
EndBegin ==
  /\ end_pc = "idle"
  /\ end_calls < MaxEndDays
  /\ end_calls' = end_calls + 1
  /\ EndGoto(IF daily_conversations = <<>> THEN "idle" ELSE "save")
  /\ UNCHANGED <<daily_conversations, diary_entries, generated, saved_document, diary_input>>
\* line 1095: save_daily_conversation writes the log to the document of the day
EndSave ==
  /\ end_pc = "save"
  /\ saved_document' = daily_conversations
  /\ EndGoto("request")
  /\ UNCHANGED <<daily_conversations, diary_entries, generated, end_calls, diary_input>>
\* line 1098, lines 791-852: generate_diary_entry builds the prompt from the log and
\* posts it
EndRequest ==
  /\ end_pc = "request"
  /\ diary_input' = daily_conversations
  /\ EndGoto("respond")
  /\ UNCHANGED <<daily_conversations, diary_entries, generated, end_calls, saved_document>>
\* lines 855-893: the request ends and generate_diary_entry returns
EndRespond ==
  \E outcome \in DiaryOutcomes :
     /\ end_pc = "respond"
     /\ generate_diary_entry("end_day", outcome, DiaryResult[outcome], clock)
     /\ EndGoto("clear")
     /\ UNCHANGED <<daily_conversations, end_calls, saved_document, diary_input>>
\* lines 1117-1118: the log is cleared
EndClear ==
  /\ end_pc = "clear"
  /\ daily_conversations' = <<>>
  /\ EndGoto("idle")
  /\ UNCHANGED <<diary_entries, generated, end_calls, saved_document, diary_input>>

NextEndDay == LogExchange \/ EndBegin \/ EndSave \/ EndRequest \/ EndRespond \/ EndClear
SpecEndDay == InitDiary /\ [][NextEndDay]_vars

(***************************************************************************)
(* The text functions called on texts of many shapes, and called again on  *)
(* what they returned                                                      *)
(***************************************************************************)
\* what a child may type, with and without personal details
Phrases ==
  <<"my name is Priya Sharma", "I am Ravi", "ring 9876543210", "mail a@b.com now",
    "i am from New Delhi", "class 5 at delhi public school", "12 main road 110001">>
\* phrases in a text
MaxPhrases == 2
RECURSIVE PhraseTexts(_)
PhraseTexts(k) ==
  IF k = 0 THEN {""}
  ELSE {IF i = 0 THEN t ELSE IF t = "" THEN Phrases[i] ELSE t \o " " \o Phrases[i] :
          t \in PhraseTexts(k - 1), i \in 0..Len(Phrases)}

\* texts around MAX_MEMORY_TEXT_LENGTH characters: 276 characters of words, up
\* to MaxPad letters, and a tail
MaxPad == 5
LongTails == {"", " and so on, call me at 9876543210 ok  ", "  yz my name is Priya Sharma"}
LongTexts == {Repeat("abcd ", 55) \o "w" \o Repeat("x", n) \o tail : n \in 0..MaxPad, tail \in LongTails}

\* replies of the model
ReplyTexts ==
  ModelReplies \cup
  {"I'm programmed to'm designed to help", "Write to me at a@b.com, that is the rule :]",
   "sorry, Sorry and SORRY!", "so sorry public school is closed, sorry",
   "I am so sorry. Sorry about that, sorry!", "so<b>rry to hear that", "No apology here"}

\* a name after each way of giving it
NameTexts ==
  {trigger \o " " \o name : trigger \in {"my name is", "I am", "i am", "call me"},
                            name \in {"Priya", "Priya Sharma"}}

TextInputs == PhraseTexts(MaxPhrases) \cup LongTexts \cup ReplyTexts \cup NameTexts

\* the argument of the next call: the text given, or what the last call returned
Fed == IF results = <<>> THEN given ELSE results[Len(results)]
\* the function named has returned out
Returned(name, out) ==
  /\ applied' = name
  /\ results' = Append(results, out)
  /\ UNCHANGED <<given, docVars, handlerVars, recorded, threadVars, mergeVars, diaryVars>>

\* redact_pii(text), and redact_pii of the result
Redact ==
  /\ applied \in {"", "redact_pii"}
  /\ Len(results) < 2
  /\ Returned("redact_pii", redact_pii(Fed))
\* sanitize_memory_text(text)
Sanitize ==
  /\ applied = ""
  /\ Returned("sanitize_memory_text", sanitize_memory_text(given))
\* the cleaning of a reply in call_openrouter_api (lines 643-672), and of the result
Clean ==
  /\ given \in ReplyTexts
  /\ applied \in {"", "call_openrouter_api"}
  /\ Len(results) < 2
  /\ Returned("call_openrouter_api", clean_response(Fed))

InitText ==
  /\ EmptyStore /\ Quiet /\ Idle /\ Unmerged /\ Unapplied /\ NoDiary
  /\ given \in TextInputs
NextText == Redact \/ Sanitize \/ Clean
SpecText == InitText /\ [][NextText]_vars

(***************************************************************************)
(* What is stored where                                                    *)
(***************************************************************************)
TextsOf(entries) ==
  {entries[k].user : k \in 1..Len(entries)} \cup {entries[k].agent : k \in 1..Len(entries)}
ContextTexts == TextsOf(load_recent_context(ctxFile))
HighlightTexts == Range(Get(load_summary(sumFile), "recent_highlights", <<>>))
LoggedTexts == TextsOf(daily_conversations)
CountOf(file) == Get(load_summary(file), "conversation_count", 0)
StoredTags(file) == Get(load_summary(file), "interest_tags", <<>>)
\* this step is a completed update_memory; LastRecorded is the entry it built
Completes == Len(recorded') = Len(recorded) + 1
LastRecorded == recorded[Len(recorded)]

\* the images of the handled texts under redact_pii, and what memory keeps of them
RedactedImages == {redact_pii(text) : text \in HandledTexts}
StoredImages == {Truncated(strip(image)) : image \in RedactedImages}
\* the handled texts that redact_pii changes
RawTexts == {text \in HandledTexts : redact_pii(text) # text}

\* C1: every text in the RecentContext document, in the Summary's recent_highlights,
\* in the daily conversation log and in the user message of a model call is the
\* image of a handled text under redact_pii (stripped and truncated, for memory);
\* no text that redact_pii changes is in any of the four in its raw form.
C1_SinksHoldRedactedText ==
  /\ LoggedTexts \subseteq RedactedImages
  /\ outbound \subseteq RedactedImages
  /\ ContextTexts \subseteq StoredImages
  /\ HighlightTexts \subseteq StoredImages
  /\ (LoggedTexts \cup outbound \cup ContextTexts \cup HighlightTexts) \cap RawTexts = {}

\* a message with a phone number has reached all four sinks, redacted
C1_PhoneReachedAllSinks ==
  /\ "Call me at [PHONE_REDACTED]" \in outbound
  /\ "Call me at [PHONE_REDACTED]" \in LoggedTexts
  /\ "Call me at [PHONE_REDACTED]" \in ContextTexts
  /\ "Call me at [PHONE_REDACTED]" \in HighlightTexts

\* C3: every completed update_memory leaves conversation_count one greater than the
\* count persisted before it, and no other step changes the count.
C3_CountStepsByOne ==
  [][CountOf(sumFile') = CountOf(sumFile) + (Len(recorded') - Len(recorded))]_vars

\* two exchanges recorded on top of an earlier count of 7
C3_TwoMoreCounted == Len(recorded) = 2 /\ CountOf(sumFile) = 9

\* C8: a completed update_memory that found the context document missing, empty,
\* not JSON or of another JSON type loaded the empty list and leaves a context
\* of exactly the new entry; one that found the summary document so loaded the
\* empty object and leaves conversation_count 1.
C8_BadDocumentsAreZero ==
  [][Completes =>
       /\ ctxFile.kind # "list" =>
            /\ load_recent_context(ctxFile) = <<>>
            /\ load_recent_context(ctxFile') = <<recorded'[Len(recorded')]>>
       /\ sumFile.kind # "dict" =>
            /\ load_summary(sumFile) = EmptyDict
            /\ CountOf(sumFile') = 1]_vars

\* the first exchange has been recorded over two unusable documents
C8_FirstExchangeRecorded ==
  /\ Len(recorded) = 1
  /\ load_recent_context(ctxFile) = <<LastRecorded>>
  /\ CountOf(sumFile) = 1

\* C9 as stated: after a completed update_memory whose user text yields at most
\* MAX_INTEREST_TAGS tags, every one of these tags is among the stored interest_tags.
C9_EverySeenTagStored ==
  [][Completes /\ Len(recorded'[Len(recorded')].interest_tags) <= MAX_INTEREST_TAGS =>
       Range(recorded'[Len(recorded')].interest_tags) \subseteq Range(StoredTags(sumFile'))]_vars

\* C9: after a completed update_memory whose user text yields at most
\* MAX_INTEREST_TAGS tags, every one of these tags that was not stored before the
\* call is among the stored interest_tags.
C9_EveryNewTagStored ==
  [][Completes /\ Len(recorded'[Len(recorded')].interest_tags) <= MAX_INTEREST_TAGS =>
       (Range(recorded'[Len(recorded')].interest_tags) \ Range(StoredTags(sumFile)))
          \subseteq Range(StoredTags(sumFile'))]_vars

\* science and technology came in with math; math, stored before, has been evicted
C9_StoredTagEvicted ==
  /\ recorded # <<>>
  /\ LastRecorded.interest_tags = <<"science", "technology", "math">>
  /\ StoredTags(sumFile) = <<"sports", "nature", "animals", "helping", "science", "technology">>

\* C2: when no thread is inside update_memory, conversation_count is the number
\* of calls that have completed, whatever the interleaving of the calls: from
\* an empty store, N completed calls leave conversation_count N.
C2_NoLostUpdate ==
  (\A t \in Writers : pc[t] \in {"idle", "lock", "done"}) =>
     CountOf(sumFile) = Cardinality({t \in Writers : At(t, "done")})

\* every writer has completed its call
C2_AllCallsCounted ==
  /\ \A t \in Writers : At(t, "done")
  /\ CountOf(sumFile) = NWriters

\* C4: after k calls on an empty store the context holds the last
\* min(k, MAX_MEMORY_ENTRIES) recorded entries, unchanged and oldest first.
C4_ContextIsLastTen ==
  /\ load_recent_context(ctxFile) = LastN(recorded, MAX_MEMORY_ENTRIES)
  /\ Len(load_recent_context(ctxFile)) =
       (IF Len(recorded) < MAX_MEMORY_ENTRIES THEN Len(recorded) ELSE MAX_MEMORY_ENTRIES)

\* twelve calls: ten entries are kept, the two oldest are gone
C4_TwelveRecorded ==
  /\ Len(recorded) = 12
  /\ load_recent_context(ctxFile) = SubSeq(recorded, 3, 12)

\* C5: the stored interest_tags have no duplicate and at most MAX_INTEREST_TAGS
\* elements, recent_highlights at most three, recent_moods at most
\* MAX_MEMORY_ENTRIES.
C5_SummaryBounds ==
  LET summary == load_summary(sumFile)
      tags == Get(summary, "interest_tags", <<>>)
  IN /\ Len(tags) <= MAX_INTEREST_TAGS
     /\ \A i, j \in 1..Len(tags) : tags[i] = tags[j] => i = j
     /\ Len(Get(summary, "recent_highlights", <<>>)) <= HighlightsKept
     /\ Len(Get(summary, "recent_moods", <<>>)) <= MAX_MEMORY_ENTRIES

\* every list of the summary is full
C5_SummaryFull ==
  /\ Len(StoredTags(sumFile)) = MAX_INTEREST_TAGS
  /\ Len(Get(load_summary(sumFile), "recent_highlights", <<>>)) = HighlightsKept
  /\ Len(Get(load_summary(sumFile), "recent_moods", <<>>)) = MAX_MEMORY_ENTRIES
  /\ Len(recorded) > MAX_MEMORY_ENTRIES

\* C6: when a call of update_memory has failed, both documents are as they were
\* when the call began.
C6_FailedCallLeavesNoTrace ==
  \A t \in Writers : At(t, "failed") => ctxFile = before[t][1] /\ sumFile = before[t][2]

\* C7: no reading thread loads a document that a writer has open for writing,
\* and the thread in call_openrouter_api never holds a context with more
\* exchanges than the summary it loaded after it has counted.
C7_ReadersSeeWholeUpdates ==
  /\ \A r \in Readers : ~seen[r].torn
  /\ At(Caller, "done") =>
       Get(seen[Caller].summary, "conversation_count", 0) >= Len(seen[Caller].recent_context)

\* C10: for all lists existing and new over the tag vocabulary,
\* merge_with_limit(existing, new, 6) is existing then new, with every later
\* repeat of an element dropped, cut to its last six elements.
C10_MergeIsReference == merged = LastN(Dedup(existing \o new_items), MAX_INTEREST_TAGS)

\* [a, b, c, d, e, f] merged with [g] is [b, c, d, e, f, g]
C10_OldestEvicted ==
  /\ existing = SubSeq(TagOrder, 1, 6)
  /\ new_items = <<TagOrder[7]>>
  /\ merged = SubSeq(TagOrder, 2, 7)

\* sanitize_memory_text has returned out for a text that, redacted and trimmed,
\* is cleaned
Sanitized == applied = "sanitize_memory_text" /\ given # ""
EndsWithSpace(s) == s # "" /\ SubSeq(s, Len(s), Len(s)) \in SpaceSet
EndsWithEllipsis(s) == Len(s) >= 3 /\ SubSeq(s, Len(s) - 2, Len(s)) = "..."
IsCut(cleaned) == Len(cleaned) > MAX_MEMORY_TEXT_LENGTH
CutAt283(cleaned, out) ==
  IsCut(cleaned) =>
     /\ Len(out) = MAX_MEMORY_TEXT_LENGTH + 3
     /\ out = SubSeq(cleaned, 1, MAX_MEMORY_TEXT_LENGTH) \o "..."
CutWithoutBlanks(cleaned, out) ==
  IsCut(cleaned) =>
     /\ out = rstrip(SubSeq(cleaned, 1, MAX_MEMORY_TEXT_LENGTH)) \o "..."
     /\ EndsWithEllipsis(out)
     /\ Len(out) <= MAX_MEMORY_TEXT_LENGTH + 3
     /\ Len(out) = MAX_MEMORY_TEXT_LENGTH + 3
          <=> ~EndsWithSpace(SubSeq(cleaned, 1, MAX_MEMORY_TEXT_LENGTH))
CutShort(cleaned, out) ==
  IsCut(cleaned) /\ Len(out) = MAX_MEMORY_TEXT_LENGTH + 2 /\ EndsWithEllipsis(out)

\* C11 as stated: a text that is cut comes back as its first 280 characters and
\* the ellipsis, 283 characters, whatever the 280th character is.
C11_CutIsAlways283 == Sanitized => CutAt283(strip(redact_pii(given)), results[1])

\* C11: a text that is cut comes back as its first 280 characters without the
\* blanks at their end, followed by the ellipsis: at most 283 characters, and
\* 283 exactly when the 280th character is not a blank.
C11_CutDropsTrailingBlanks == Sanitized => CutWithoutBlanks(strip(redact_pii(given)), results[1])

\* a text whose 280th character is a blank has come back 282 characters long
C11_CutShorterThan283 == Sanitized /\ CutShort(strip(redact_pii(given)), results[1])

StoredTexts == TextsOf(load_recent_context(ctxFile))
UpTo280OrCut(s) ==
  \/ Len(s) <= MAX_MEMORY_TEXT_LENGTH
  \/ Len(s) <= MAX_MEMORY_TEXT_LENGTH + 3 /\ EndsWithEllipsis(s)

\* C13 as stated: every user text and agent text of the stored context has at
\* most 280 characters.
C13_StoredAtMost280 == \A s \in StoredTexts : Len(s) <= MAX_MEMORY_TEXT_LENGTH

\* C13: every user text and agent text of the stored context has at most 280
\* characters, or at most 280 characters followed by the ellipsis (283 in all).
C13_StoredAtMost280AndEllipsis == \A s \in StoredTexts : UpTo280OrCut(s)

\* a user text of 283 characters and an agent text of 282 are stored
C13_CutTextsStored ==
  \E k \in 1..Len(load_recent_context(ctxFile)) :
     /\ Len(load_recent_context(ctxFile)[k].user) = MAX_MEMORY_TEXT_LENGTH + 3
     /\ Len(load_recent_context(ctxFile)[k].agent) = MAX_MEMORY_TEXT_LENGTH + 2

\* the function has been called on the text given and again on what it returned
CalledTwice(name) == applied = name /\ Len(results) = 2

\* C14: redact_pii(redact_pii(x)) = redact_pii(x): nothing that the seven passes
\* leave behind is matched by a pass of the second call.
C14_RedactIsIdempotent == CalledTwice("redact_pii") => results[2] = results[1]

\* a text with a name and a telephone number has been redacted twice, with one
\* result
C14_RedactedTwice ==
  /\ CalledTwice("redact_pii")
  /\ given = "my name is Priya Sharma ring 9876543210"
  /\ results = <<"my name is [NAME_REDACTED] [NAME_REDACTED] ring [PHONE_REDACTED]",
                 "my name is [NAME_REDACTED] [NAME_REDACTED] ring [PHONE_REDACTED]">>

\* C15: the cleaning of a reply, applied to a reply it has cleaned, returns it
\* unchanged.
C15_CleanIsIdempotent == CalledTwice("call_openrouter_api") => results[2] = results[1]

\* \bsorry\b, in any letter case
SorryCount(s) == FindCount(sorry_pattern, s, TRUE)

\* C16: a reply with one or more standalone "sorry" is cleaned to a text with
\* exactly one, a reply with none to a text with none.
C16_OneSorryIsKept ==
  applied = "call_openrouter_api" =>
     SorryCount(results[1]) = (IF SorryCount(given) >= 1 THEN 1 ELSE 0)

\* the ways of giving a name of C18, and what redact_pii is to make of them
NameCases ==
  {<<"my name is Priya", "my name is [NAME_REDACTED]">>,
   <<"my name is Priya Sharma", "my name is [NAME_REDACTED] [NAME_REDACTED]">>,
   <<"I am Priya", "I am [NAME_REDACTED]">>,
   <<"I am Priya Sharma", "I am [NAME_REDACTED] [NAME_REDACTED]">>,
   <<"call me Priya", "call me [NAME_REDACTED]">>,
   <<"call me Priya Sharma", "call me [NAME_REDACTED] Sharma">>}

\* C18: after "my name is", "I am" and "call me" the capitalized words of the
\* name (one word after "call me") become [NAME_REDACTED] and the rest is kept.
C18_NamesAreRedacted ==
  applied = "redact_pii" => \A c \in NameCases : given = c[1] => results[1] = c[2]

\* the summary document is missing, empty, not JSON, not a JSON object, or the
\* empty object
NoSummaryIn(file) == file \in ZeroFiles \/ file.kind = "list" \/ file = FileOf("dict", EmptyDict)
\* this step is a call of generate_intro_message
Greets == applied' = "generate_intro_message" /\ UNCHANGED sumFile

\* C17: generate_intro_message returns the cold-start greeting whenever the summary
\* document is missing, empty, not JSON, not a JSON object or the empty object.
C17_ColdStartGreeting ==
  [][Greets /\ NoSummaryIn(sumFile) => results' = <<cold_start_greeting>>]_vars

\* the greeting has been returned for a summary document that is not JSON
C17_GreetedOverGarbage ==
  /\ sumFile = GarbageFile
  /\ applied = "generate_intro_message"
  /\ results = <<cold_start_greeting>>

\* the places of recent_context whose user text is not empty
FilledPlaces(recent_context) == {k \in 1..Len(recent_context) : recent_context[k].user # ""}
\* the place of the j-th of n highlights: n - j filled places come after it
PlaceOf(filled, n, j) == CHOOSE k \in filled : Cardinality({i \in filled : i > k}) = n - j
\* highlights are the user texts of the last (up to HighlightsKept) filled places, in order
HighlightsOf(highlights, recent_context, filled) ==
  /\ Len(highlights) = Min({HighlightsKept, Cardinality(filled)})
  /\ \A j \in 1..Len(highlights) :
        highlights[j] = recent_context[PlaceOf(filled, Len(highlights), j)].user
HighlightsFollow(summary, recent_context) ==
  HighlightsOf(Get(summary, "recent_highlights", <<>>), recent_context,
               FilledPlaces(recent_context))

\* C20: after every completed update_memory, recent_highlights of the saved summary is
\* the last (up to 3) non-empty user texts of the context saved by the same call, oldest
\* first; an exchange whose sanitized user text is empty adds no highlight.
C20_HighlightsFollowContext ==
  recorded # <<>> => HighlightsFollow(load_summary(sumFile), load_recent_context(ctxFile))

\* the saved context holds an empty user text and more than HighlightsKept filled ones
SkipsAndDrops(recent_context, filled) ==
  /\ Cardinality(filled) > HighlightsKept
  /\ Cardinality(filled) < Len(recent_context)
C20_EmptySkippedOldestDropped ==
  /\ recorded # <<>>
  /\ SkipsAndDrops(load_recent_context(ctxFile), FilledPlaces(load_recent_context(ctxFile)))
  /\ Len(Get(load_summary(sumFile), "recent_highlights", <<>>)) = HighlightsKept

\* this step generates a diary entry
Generates == Len(generated') = Len(generated) + 1
\* the entry of the generation is the whole entry of its date, and no other date changes
WrittenWhole(latest) ==
  /\ DOMAIN diary_entries' = DOMAIN diary_entries \cup {latest.date}
  /\ \A d \in DOMAIN diary_entries \ {latest.date} : diary_entries'[d] = diary_entries[d]
  /\ diary_entries'[latest.date] =
       DiaryEntry(latest.content, latest.at, Len(daily_conversations))
  /\ latest.at \in clock..(clock + RequestTimeout)
\* the scheduled check generates only while the flag is down
ScheduledUnflagged(latest) == latest.trigger = "scheduled" => ~auto_diary_generated_today
\* two generations of one date
Regenerated(i, j) == i < j /\ generated[i].date = generated[j].date

RECURSIVE JoinSpaces(_)
JoinSpaces(parts) ==
  IF parts = <<>> THEN ""
  ELSE IF Len(parts) = 1 THEN parts[1]
  ELSE parts[1] \o " " \o JoinSpaces(Tail(parts))
\* the opener of the last mood
OpenerFor(last_mood) ==
  CASE last_mood = "needs_support" -> "Hey buddy, I'm really glad you dropped in."
    [] last_mood = "upbeat" -> "Hey superstar! So happy to see you again!"
    [] OTHER -> "Hi friend! I'm excited to hang out again."
\* the closing line of the last mood
ClosingFor(last_mood) ==
  IF last_mood = "needs_support" THEN "Tell me what's on your mind and we'll handle it together."
  ELSE "What should we explore first today?"
\* a highlight as it is quoted
QuoteOf(highlight) == IF Len(highlight) <= 80 THEN highlight ELSE SubSeq(highlight, 1, 77) \o "..."
\* at most one body, by priority: mapped and filled are the places of the tags that have
\* a friendly phrase and of the highlights that are not empty
BodyFor(tags, highlights, mapped, filled) ==
  IF \E k \in 1..Len(highlights) : Contains(lower(highlights[k]), "exam")
  THEN <<"How did that exam go-want to celebrate wins or tackle tricky bits together?">>
  ELSE IF mapped # {}
  THEN <<"Keen to dive back into those " \o INTEREST_FRIENDLY_NAMES[tags[Max(mapped)]]
           \o "? I have a fun twist ready.">>
  ELSE IF filled # {}
  THEN <<"I've been thinking about that awesome bit you shared: "
           \o QuoteOf(highlights[Max(filled)]) \o ". Want to build on it?">>
  ELSE <<>>
GreetingFor(tags, highlights, last_mood) ==
  JoinSpaces(<<OpenerFor(last_mood)>>
             \o BodyFor(tags, highlights,
                        {k \in 1..Len(tags) : tags[k] \in DOMAIN INTEREST_FRIENDLY_NAMES},
                        {k \in 1..Len(highlights) : highlights[k] # ""})
             \o <<ClosingFor(last_mood)>>)
GreetingOfMoods(tags, highlights, moods) ==
  GreetingFor(tags, highlights, IF moods = <<>> THEN "neutral" ELSE moods[Len(moods)])
GreetingOf(summary) ==
  GreetingOfMoods(Get(summary, "interest_tags", <<>>), Get(summary, "recent_highlights", <<>>),
                  Get(summary, "recent_moods", <<>>))

\* C21: for every non-empty summary the greeting is the opener of the last mood (neutral
\* when there is none or it is unknown), then at most one body by priority (exam
\* follow-up, else the phrase of the most recent mapped tag, else the most recent
\* non-empty highlight clipped to 80 characters), then the closing line, joined with
\* single spaces.
C21_GreetingIsComposed ==
  (applied = "generate_intro_message" /\ DOMAIN load_summary(sumFile) # {})
     => results = <<GreetingOf(load_summary(sumFile))>>

\* greeted over a summary with an exam highlight, a mapped tag and a last mood in need of
\* support: the exam follow-up wins
C21_ExamBeforeInterest ==
  /\ applied = "generate_intro_message"
  /\ Get(load_summary(sumFile), "interest_tags", <<>>) = <<"art", "math">>
  /\ Get(load_summary(sumFile), "recent_highlights", <<>>) = <<"my Exam is near", "">>
  /\ results = <<"Hey buddy, I'm really glad you dropped in. How did that exam go-want to celebrate wins or tackle tricky bits together? Tell me what's on your mind and we'll handle it together.">>

\* the thread is in a call of update_memory that has not returned
InCall(t) == pc[t] \in {"lock", "unlock"} \cup IOPoints
\* the call of the thread has returned, or has left update_memory with an error
CallOver(t) == pc[t] \in {"done", "failed"}

\* C22: under fair scheduling every call of update_memory that starts returns, and
\* memory_lock is free again after it was taken, with concurrent callers and with loads
\* and saves that fail inside the with block; a thread outside a call never holds the lock.
C22_CallsReturnLockFreed ==
  /\ \A t \in Writers : InCall(t) ~> CallOver(t)
  /\ (lock # NoThread) ~> (lock = NoThread)
  /\ [](\A t \in Writers : lock = t => InCall(t))

\* a call failed inside the with block while the other thread waited for the lock, and
\* the call of the other thread has returned
C22_ReturnedAfterFailure ==
  /\ pc[1] = "failed"
  /\ before[2] = <<EmptyFile, MissingFile>>
  /\ pc[2] = "done"
  /\ lock = NoThread

\* the threads between the load of the context and the end of the save of the summary
InSequence == {t \in Writers : pc[t] \in IOPoints \cup {"unlock"}}
\* the two documents after update_memory has been run for the entries one after the
\* other, the first entry first, on the documents of context and summary
RECURSIVE SequentialRun(_, _, _)
SequentialRun(entries, context, summary) ==
  IF entries = <<>> THEN <<save_recent_context(context), save_summary(summary)>>
  ELSE CHOOSE pair \in
         {SequentialRun(Tail(entries), next,
                        UpdateSummary(summary, next, clock, Head(entries).mood_hint,
                                      Head(entries).interest_tags)) :
            next \in {AppendEntry(context, Head(entries))}} : TRUE

\* C23: at most one call of update_memory is between its load of the context and its
\* save of the summary, and whenever no call is there the two documents are those of
\* the completed calls run one after the other in the order in which they took the lock.
C23_CallsAreSerialized ==
  /\ Cardinality(InSequence) <= 1
  /\ (InSequence = {} /\ recorded # <<>>) =>
        <<ctxFile, sumFile>> = SequentialRun(recorded, <<>>, EmptyDict)

\* both threads were in update_memory at once: the second took the lock when the first
\* had saved both documents, and both calls have returned
C23_TwoCallsInTurn ==
  /\ \A t \in Writers : At(t, "done")
  /\ Len(recorded) = NWriters
  /\ \E t \in Writers : before[t] = SequentialRun(SubSeq(recorded, 1, 1), <<>>, EmptyDict)
  /\ recorded[1].user # recorded[2].user

\* the mood hints of the entries of a context, in order
MoodsOf(recent_context) == [k \in 1..Len(recent_context) |-> recent_context[k].mood_hint]
\* summary and context agree on the moods and on the count
Agree(summary, recent_context) ==
  /\ Get(summary, "recent_moods", <<>>) = MoodsOf(recent_context)
  /\ Get(summary, "conversation_count", 0) >= Len(recent_context)
  /\ Len(recorded) < MAX_MEMORY_ENTRIES =>
        Get(summary, "conversation_count", 0) = Len(recent_context)

\* C24: from an empty store, after every completed update_memory, recent_moods of the
\* summary is the sequence of the mood hints of the context entries in order, and
\* conversation_count is at least the number of context entries, and equal to it while
\* fewer than 10 exchanges have been recorded.
C24_SummaryAgreesWithContext ==
  recorded # <<>> => Agree(load_summary(sumFile), load_recent_context(ctxFile))

\* more exchanges than the context keeps have been recorded: the count has passed the
\* number of entries, and the moods kept are not all the same
C24_AgreeAfterEviction ==
  /\ Len(recorded) > MAX_MEMORY_ENTRIES
  /\ CountOf(sumFile) > Len(load_recent_context(ctxFile))
  /\ Cardinality(Range(Get(load_summary(sumFile), "recent_moods", <<>>))) > 1
  /\ recorded[1].mood_hint # recorded[MAX_MEMORY_ENTRIES + 1].mood_hint

\* C25: no logged exchange is lost at end of day: whenever end_day clears the log,
\* every entry of the log is in the document it saved and in the diary input it built.
C25_NothingLostAtEndOfDay ==
  [][(end_pc = "clear" /\ end_pc' = "idle")
       => (daily_conversations = saved_document /\ daily_conversations = diary_input)]_vars

====
